---------------------------- MODULE Spec2Model ----------------------------
(***************************************************************************)
(* A model of pwmd: the PWM control layer of src/src/pwm.rs (operations    *)
(* that validate and perform sysfs reads and writes) and the D-Bus serving *)
(* loop of src/src/dbus.rs that calls it.                                  *)
(*                                                                         *)
(* The file system is the only state of the control layer.  A path is the  *)
(* text the code builds with format!/join (relative to sysfs_root); a      *)
(* file's content is text.  Numbers are written and parsed digit by digit. *)
(***************************************************************************)
EXTENDS Integers, Sequences, FiniteSets, TLC

(***************************************************************************)
(* Bounds of the model.                                                    *)
(***************************************************************************)
\* Controller ids a request may name: 0..MaxController.
MaxController == 1
\* Channel ids a request may name: 0..MaxChannel.
MaxChannel == 1
\* Durations a request may carry, in nanoseconds: 0..MaxNs.
MaxNs == 2
\* Callers of the control layer / clients of the bus: 1..MaxCallers.
MaxCallers == 2
\* White space put around the texts given to the parsers: 0..MaxPad characters.
MaxPad == 1

Controllers == 0..MaxController
Channels == 0..MaxChannel
Nanos == 0..MaxNs
Callers == 1..MaxCallers

VARIABLES
    dirs,       \* the directories that exist under sysfs_root (set of paths)
    files,      \* the files that exist under sysfs_root: path -> content
    last,       \* the last completed call of the control layer and its result
    panicked,   \* TRUE once a call has panicked (an .expect() failed)
    calls,      \* per caller: where its call of the control layer stands
    inbox,      \* the bus: callers whose request waits for the serving loop
    quit,       \* the serving loop's quit flag
    listen,     \* where listen is: its position and what it has done
    external    \* TRUE when another process has written a file since the
                \* last call of the control layer

vars == <<dirs, files, last, panicked, calls, inbox, quit, listen, external>>

(***************************************************************************)
(* Text: decimal formatting and parsing, character by character.           *)
(***************************************************************************)
DigitChars == "0123456789"

CharAt(s, i) == SubSeq(s, i, i)

IsDigit(c) == \E i \in 1..10 : CharAt(DigitChars, i) = c

DigitValue(c) == (CHOOSE i \in 1..10 : CharAt(DigitChars, i) = c) - 1

\* <integer>.to_string(): decimal ASCII, no sign, no leading zero.
RECURSIVE to_string(_)
to_string(n) ==
    IF n < 10 THEN CharAt(DigitChars, n + 1)
    ELSE to_string(n \div 10) \o CharAt(DigitChars, (n % 10) + 1)

RECURSIVE DigitsValue(_, _)
DigitsValue(s, acc) ==
    IF s = "" THEN acc
    ELSE DigitsValue(Tail(s), acc * 10 + DigitValue(CharAt(s, 1)))

AllDigits(s) == \A i \in 1..Len(s) : IsDigit(CharAt(s, i))

\* str::parse::<u64>() / ::<u32>(): an optional leading "+", then one or more
\* decimal digits and nothing else (no whitespace is skipped).  The texts of
\* this model are far shorter than 2^32, so the overflow error never arises.
parse_unsigned(s) ==
    LET body == IF Len(s) > 0 /\ CharAt(s, 1) = "+" THEN Tail(s) ELSE s
    IN  IF body # "" /\ AllDigits(body)
        THEN [ok |-> TRUE, value |-> DigitsValue(body, 0)]
        ELSE [ok |-> FALSE, value |-> 0]

UpperChars == "ABCDEFGHIJKLMNOPQRSTUVWXYZ"
LowerChars == "abcdefghijklmnopqrstuvwxyz"

LowerChar(c) ==
    IF \E i \in 1..26 : CharAt(UpperChars, i) = c
    THEN CharAt(LowerChars, CHOOSE i \in 1..26 : CharAt(UpperChars, i) = c)
    ELSE c

RECURSIVE to_lowercase(_)
to_lowercase(s) ==
    IF s = "" THEN "" ELSE LowerChar(CharAt(s, 1)) \o to_lowercase(Tail(s))

(***************************************************************************)
(* Values of the control layer.                                            *)
(***************************************************************************)
NanosPerSec == 10^9

\* Duration::from_nanos: whole seconds and the sub-second nanoseconds.
Duration_from_nanos(ns) == [secs |-> ns \div NanosPerSec, nanos |-> ns % NanosPerSec]

\* Duration::as_nanos.
as_nanos(d) == d.secs * NanosPerSec + d.nanos

\* The comparison with a strict bound: equal values pass (mutant).
Duration_gt(a, b) == a.secs > b.secs \/ (a.secs = b.secs /\ a.nanos > b.nanos)

\* Duration's derived ordering, a >= b: by seconds, then by nanoseconds.
Duration_ge(a, b) == a.secs > b.secs \/ (a.secs = b.secs /\ a.nanos >= b.nanos)

Polarities == {"Normal", "Inversed"}

\* impl Display for Polarity.
Polarity_to_string(p) == IF p = "Normal" THEN "normal" ELSE "inversed"

\* The results of a call: Ok or a PwmError with what it carries.
Ok == [kind |-> "Ok"]
ControllerNotFound(c) == [kind |-> "ControllerNotFound", controller |-> c]
ChannelNotFound(c, ch) == [kind |-> "ChannelNotFound", controller |-> c, channel |-> ch]
NotExported(c) == [kind |-> "NotExported", controller |-> c]
SysfsRead(path) == [kind |-> "Sysfs", access |-> "Read", path |-> path]
SysfsWrite(path) == [kind |-> "Sysfs", access |-> "Write", path |-> path]
DutyCycleNotLessThanPeriod == [kind |-> "DutyCycleNotLessThanPeriod"]
IllegalChangeWhileEnabled(what) == [kind |-> "IllegalChangeWhileEnabled", property |-> what]
NotBoolean(text) == [kind |-> "NotBoolean", text |-> text]
InvalidPolarity == [kind |-> "InvalidPolarity"]
\* Not a PwmError: the call did not return, an .expect() panicked.
Panic == [kind |-> "Panic"]

\* A parser that takes the names in any case.
Polarity_from_str_any_case(s) ==
    IF to_lowercase(s) = "normal" THEN [res |-> Ok, value |-> "Normal"]
    ELSE IF to_lowercase(s) = "inversed" THEN [res |-> Ok, value |-> "Inversed"]
    ELSE [res |-> InvalidPolarity, value |-> "Normal"]

\* impl FromStr for Polarity: the two lower-case names, nothing else.
Polarity_from_str(s) ==
    IF s = "normal" THEN [res |-> Ok, value |-> "Normal"]
    ELSE IF s = "inversed" THEN [res |-> Ok, value |-> "Inversed"]
    ELSE [res |-> InvalidPolarity, value |-> "Normal"]

\* parse_bool: the sysfs spellings, compared in lower case; anything else is
\* NotBoolean with the text as read.
parse_bool(s) ==
    LET l == to_lowercase(s)
    IN  IF l \in {"1", "y", "yes", "true"} THEN [res |-> Ok, value |-> TRUE]
        ELSE IF l \in {"0", "n", "no", "false", ""} THEN [res |-> Ok, value |-> FALSE]
        ELSE [res |-> NotBoolean(s), value |-> FALSE]

(***************************************************************************)
(* Paths and the file system.                                              *)
(***************************************************************************)
join(dir, name) == dir \o "/" \o name

\* The elements of a sequence (the paths a call read or wrote).
Range(seq) == {seq[i] : i \in 1..Len(seq)}

chip_dir(c) == "pwmchip" \o to_string(c)
chip_file(c, name) == join(chip_dir(c), name)
channel_dir(c, ch) == join(chip_dir(c), "pwm" \o to_string(ch))
channel_file(c, ch, name) == join(chip_dir(c), "pwm" \o to_string(ch) \o "/" \o name)

\* Path::exists.
exists(d, f, path) == path \in d \/ path \in DOMAIN f

\* What the environment does to one call's file accesses: nothing, or it
\* fails the read of npwm, the read of a channel property, or the opening
\* of the file to write (an I/O error such as a denied permission).
Faults == {"none", "npwm", "read", "write"}

\* fs::read_to_string: the content, or an I/O error (always for a missing file).
read_to_string(f, path, failed) ==
    IF path \in DOMAIN f /\ ~failed
    THEN [ok |-> TRUE, text |-> f[path]]
    ELSE [ok |-> FALSE, text |-> ""]

SetFile(f, path, text) ==
    [p \in DOMAIN f \cup {path} |-> IF p = path THEN text ELSE f[p]]

\* fs::write: the file holds the text afterwards (it is created when
\* missing), or the file cannot be opened and keeps what it held.
fs_write(f, path, text, fault) ==
    IF fault = "write"
    THEN [res |-> SysfsWrite(path), files |-> f, wrote |-> <<>>]
    ELSE [res |-> Ok, files |-> SetFile(f, path, text), wrote |-> <<path>>]

\* What the checks of a call conclude, and the files they read on the way.
Checked(res, read) == [res |-> res, read |-> read]

\* read_npwm_file: Sysfs(Read) when the file cannot be read, a panic when its
\* text is not a number.
read_npwm_file(f, dir, fault) ==
    LET npwm_file == join(dir, "npwm")
        r == read_to_string(f, npwm_file, fault = "npwm")
        n == parse_unsigned(r.text)
    IN  IF ~r.ok THEN [res |-> SysfsRead(npwm_file), value |-> 0]
        ELSE IF ~n.ok THEN [res |-> Panic, value |-> 0]
        ELSE [res |-> Ok, value |-> n.value]

(***************************************************************************)
(* The operations of Pwm.  Each is its checks, which end with Ok when the  *)
(* call goes on to write and with the call's result otherwise, followed by *)
(* its one fs::write.  d and f are the file system the step sees.          *)
(***************************************************************************)
\* export without its existence check (mutant).
export_checks_unchecked(d, f, controller) == Checked(Ok, <<>>)

\* export reading the channel count first, as the channel operations do
\* (mutant).
export_checks_needs_npwm(d, f, controller) ==
    IF ~exists(d, f, chip_file(controller, "export"))
    THEN Checked(ControllerNotFound(controller), <<>>)
    ELSE IF ~exists(d, f, chip_file(controller, "npwm"))
    THEN Checked(SysfsRead(chip_file(controller, "npwm")), <<>>)
    ELSE Checked(Ok, <<>>)

\* Pwm::export up to the write: only the export file is looked for.
export_checks(d, f, controller) ==
    IF ~exists(d, f, chip_file(controller, "export"))
    THEN Checked(ControllerNotFound(controller), <<>>)
    ELSE Checked(Ok, <<>>)

export_write(f, controller, fault) ==
    fs_write(f, chip_file(controller, "export"), "1", fault)

\* unexport refusing a controller already unexported (mutant).
unexport_checks_once(d, f, controller) ==
    IF ~exists(d, f, chip_file(controller, "unexport"))
    THEN Checked(ControllerNotFound(controller), <<>>)
    ELSE IF f[chip_file(controller, "unexport")] = "1"
    THEN Checked(NotExported(controller), <<>>)
    ELSE Checked(Ok, <<>>)

\* Pwm::unexport up to the write.
unexport_checks(d, f, controller) ==
    IF ~exists(d, f, chip_file(controller, "unexport"))
    THEN Checked(ControllerNotFound(controller), <<>>)
    ELSE Checked(Ok, <<>>)

unexport_write(f, controller, fault) ==
    fs_write(f, chip_file(controller, "unexport"), "1", fault)

\* The channel bound off by one: an id equal to the count passes (mutant).
update_enable_file_checks_off_by_one(d, f, controller, channel, fault) ==
    LET dir == chip_dir(controller)
        npwm_file == join(dir, "npwm")
        n_pwm == read_npwm_file(f, dir, fault)
    IN  IF ~exists(d, f, dir) THEN Checked(ControllerNotFound(controller), <<>>)
        ELSE IF n_pwm.res # Ok THEN Checked(n_pwm.res, <<npwm_file>>)
        ELSE IF channel > n_pwm.value
        THEN Checked(ChannelNotFound(controller, channel), <<npwm_file>>)
        ELSE IF ~exists(d, f, channel_file(controller, channel, "enable"))
        THEN Checked(NotExported(controller), <<npwm_file>>)
        ELSE Checked(Ok, <<npwm_file>>)

\* Pwm::update_enable_file up to the write.
update_enable_file_checks(d, f, controller, channel, fault) ==
    LET dir == chip_dir(controller)
        npwm_file == join(dir, "npwm")
        n_pwm == read_npwm_file(f, dir, fault)
    IN  IF ~exists(d, f, dir) THEN Checked(ControllerNotFound(controller), <<>>)
        ELSE IF n_pwm.res # Ok THEN Checked(n_pwm.res, <<npwm_file>>)
        ELSE IF channel >= n_pwm.value
        THEN Checked(ChannelNotFound(controller, channel), <<npwm_file>>)
        ELSE IF ~exists(d, f, channel_file(controller, channel, "enable"))
        THEN Checked(NotExported(controller), <<npwm_file>>)
        ELSE Checked(Ok, <<npwm_file>>)

update_enable_file_write(f, controller, channel, value, fault) ==
    fs_write(f, channel_file(controller, channel, "enable"), value, fault)

\* A layer that remembers the number it wrote last and takes the file's
\* value from memory (mutant).
read_duration_cached(f, path, fault) ==
    IF last.res = Ok /\ last.wrote = <<path>> /\ last.op \in {"set_period", "set_duty_cycle"}
    THEN [res |-> Ok, value |-> Duration_from_nanos(last.args.nanos)]
    ELSE LET r == read_to_string(f, path, fault = "read")
             n == parse_unsigned(r.text)
         IN  IF ~r.ok THEN [res |-> SysfsRead(path), value |-> Duration_from_nanos(0)]
             ELSE IF ~n.ok THEN [res |-> Panic, value |-> Duration_from_nanos(0)]
             ELSE [res |-> Ok, value |-> Duration_from_nanos(n.value)]

\* The value the set_period / set_duty_cycle checks read from the other
\* property's file: Sysfs(Read) when unreadable, a panic when not a number.
read_duration(f, path, fault) ==
    LET r == read_to_string(f, path, fault = "read")
        n == parse_unsigned(r.text)
    IN  IF ~r.ok THEN [res |-> SysfsRead(path), value |-> Duration_from_nanos(0)]
        ELSE IF ~n.ok THEN [res |-> Panic, value |-> Duration_from_nanos(0)]
        ELSE [res |-> Ok, value |-> Duration_from_nanos(n.value)]

\* set_period comparing with the period file instead of the duty_cycle
\* file (mutant).
set_period_checks_wrong_file(d, f, controller, channel, period, fault) ==
    LET dir == chip_dir(controller)
        npwm_file == join(dir, "npwm")
        n_pwm == read_npwm_file(f, dir, fault)
        period_file == channel_file(controller, channel, "period")
        duty_cycle_file == channel_file(controller, channel, "duty_cycle")
        duty_cycle == read_duration(f, period_file, fault)
    IN  IF ~exists(d, f, dir) THEN Checked(ControllerNotFound(controller), <<>>)
        ELSE IF n_pwm.res # Ok THEN Checked(n_pwm.res, <<npwm_file>>)
        ELSE IF channel >= n_pwm.value
        THEN Checked(ChannelNotFound(controller, channel), <<npwm_file>>)
        ELSE IF ~exists(d, f, period_file) \/ ~exists(d, f, duty_cycle_file)
        THEN Checked(NotExported(controller), <<npwm_file>>)
        ELSE IF duty_cycle.res # Ok
        THEN Checked(duty_cycle.res, <<npwm_file, period_file>>)
        ELSE IF Duration_ge(duty_cycle.value, period)
        THEN Checked(DutyCycleNotLessThanPeriod, <<npwm_file, period_file>>)
        ELSE Checked(Ok, <<npwm_file, period_file>>)

\* Pwm::set_period up to the write.
set_period_checks(d, f, controller, channel, period, fault) ==
    LET dir == chip_dir(controller)
        npwm_file == join(dir, "npwm")
        n_pwm == read_npwm_file(f, dir, fault)
        period_file == channel_file(controller, channel, "period")
        duty_cycle_file == channel_file(controller, channel, "duty_cycle")
        duty_cycle == read_duration(f, duty_cycle_file, fault)
    IN  IF ~exists(d, f, dir) THEN Checked(ControllerNotFound(controller), <<>>)
        ELSE IF n_pwm.res # Ok THEN Checked(n_pwm.res, <<npwm_file>>)
        ELSE IF channel >= n_pwm.value
        THEN Checked(ChannelNotFound(controller, channel), <<npwm_file>>)
        ELSE IF ~exists(d, f, period_file) \/ ~exists(d, f, duty_cycle_file)
        THEN Checked(NotExported(controller), <<npwm_file>>)
        ELSE IF duty_cycle.res # Ok
        THEN Checked(duty_cycle.res, <<npwm_file, duty_cycle_file>>)
        ELSE IF Duration_ge(duty_cycle.value, period)
        THEN Checked(DutyCycleNotLessThanPeriod, <<npwm_file, duty_cycle_file>>)
        ELSE Checked(Ok, <<npwm_file, duty_cycle_file>>)

set_period_write(f, controller, channel, period, fault) ==
    fs_write(f, channel_file(controller, channel, "period"),
             to_string(as_nanos(period)), fault)

\* set_duty_cycle refusing only a duty cycle above the period (mutant).
set_duty_cycle_checks_strict(d, f, controller, channel, duty_cycle, fault) ==
    LET dir == chip_dir(controller)
        npwm_file == join(dir, "npwm")
        n_pwm == read_npwm_file(f, dir, fault)
        period_file == channel_file(controller, channel, "period")
        duty_cycle_file == channel_file(controller, channel, "duty_cycle")
        period == read_duration(f, period_file, fault)
    IN  IF ~exists(d, f, dir) THEN Checked(ControllerNotFound(controller), <<>>)
        ELSE IF n_pwm.res # Ok THEN Checked(n_pwm.res, <<npwm_file>>)
        ELSE IF channel >= n_pwm.value
        THEN Checked(ChannelNotFound(controller, channel), <<npwm_file>>)
        ELSE IF ~exists(d, f, period_file) \/ ~exists(d, f, duty_cycle_file)
        THEN Checked(NotExported(controller), <<npwm_file>>)
        ELSE IF period.res # Ok
        THEN Checked(period.res, <<npwm_file, period_file>>)
        ELSE IF ~Duration_ge(period.value, duty_cycle)
        THEN Checked(DutyCycleNotLessThanPeriod, <<npwm_file, period_file>>)
        ELSE Checked(Ok, <<npwm_file, period_file>>)

\* Pwm::set_duty_cycle up to the write.
set_duty_cycle_checks(d, f, controller, channel, duty_cycle, fault) ==
    LET dir == chip_dir(controller)
        npwm_file == join(dir, "npwm")
        n_pwm == read_npwm_file(f, dir, fault)
        period_file == channel_file(controller, channel, "period")
        duty_cycle_file == channel_file(controller, channel, "duty_cycle")
        period == read_duration(f, period_file, fault)
    IN  IF ~exists(d, f, dir) THEN Checked(ControllerNotFound(controller), <<>>)
        ELSE IF n_pwm.res # Ok THEN Checked(n_pwm.res, <<npwm_file>>)
        ELSE IF channel >= n_pwm.value
        THEN Checked(ChannelNotFound(controller, channel), <<npwm_file>>)
        ELSE IF ~exists(d, f, period_file) \/ ~exists(d, f, duty_cycle_file)
        THEN Checked(NotExported(controller), <<npwm_file>>)
        ELSE IF period.res # Ok
        THEN Checked(period.res, <<npwm_file, period_file>>)
        ELSE IF Duration_ge(duty_cycle, period.value)
        THEN Checked(DutyCycleNotLessThanPeriod, <<npwm_file, period_file>>)
        ELSE Checked(Ok, <<npwm_file, period_file>>)

set_duty_cycle_write(f, controller, channel, duty_cycle, fault) ==
    fs_write(f, channel_file(controller, channel, "duty_cycle"),
             to_string(as_nanos(duty_cycle)), fault)

\* The enable flag read as true only when spelled "true" (mutant).
read_enabled_true_only(f, path, fault) ==
    LET r == read_to_string(f, path, fault = "read")
    IN  IF ~r.ok THEN [res |-> SysfsRead(path), value |-> FALSE]
        ELSE [res |-> Ok, value |-> r.text = "true"]

\* The enable flag as set_polarity reads it.
read_enabled(f, path, fault) ==
    LET r == read_to_string(f, path, fault = "read")
    IN  IF ~r.ok THEN [res |-> SysfsRead(path), value |-> FALSE]
        ELSE parse_bool(r.text)

\* set_polarity looking for the files before the channel bound (mutant).
set_polarity_checks_reordered(d, f, controller, channel, fault) ==
    LET dir == chip_dir(controller)
        npwm_file == join(dir, "npwm")
        n_pwm == read_npwm_file(f, dir, fault)
        polarity_file == channel_file(controller, channel, "polarity")
        enable_file == channel_file(controller, channel, "enable")
        is_enabled == read_enabled(f, enable_file, fault)
    IN  IF ~exists(d, f, dir) THEN Checked(ControllerNotFound(controller), <<>>)
        ELSE IF n_pwm.res # Ok THEN Checked(n_pwm.res, <<npwm_file>>)
        ELSE IF ~exists(d, f, polarity_file) \/ ~exists(d, f, enable_file)
        THEN Checked(NotExported(controller), <<npwm_file>>)
        ELSE IF channel >= n_pwm.value
        THEN Checked(ChannelNotFound(controller, channel), <<npwm_file>>)
        ELSE IF is_enabled.res # Ok
        THEN Checked(is_enabled.res, <<npwm_file, enable_file>>)
        ELSE IF is_enabled.value
        THEN Checked(IllegalChangeWhileEnabled("polarity"), <<npwm_file, enable_file>>)
        ELSE Checked(Ok, <<npwm_file, enable_file>>)

\* Pwm::set_polarity up to the write.
set_polarity_checks(d, f, controller, channel, fault) ==
    LET dir == chip_dir(controller)
        npwm_file == join(dir, "npwm")
        n_pwm == read_npwm_file(f, dir, fault)
        polarity_file == channel_file(controller, channel, "polarity")
        enable_file == channel_file(controller, channel, "enable")
        is_enabled == read_enabled(f, enable_file, fault)
    IN  IF ~exists(d, f, dir) THEN Checked(ControllerNotFound(controller), <<>>)
        ELSE IF n_pwm.res # Ok THEN Checked(n_pwm.res, <<npwm_file>>)
        ELSE IF channel >= n_pwm.value
        THEN Checked(ChannelNotFound(controller, channel), <<npwm_file>>)
        ELSE IF ~exists(d, f, polarity_file) \/ ~exists(d, f, enable_file)
        THEN Checked(NotExported(controller), <<npwm_file>>)
        ELSE IF is_enabled.res # Ok
        THEN Checked(is_enabled.res, <<npwm_file, enable_file>>)
        ELSE IF is_enabled.value
        THEN Checked(IllegalChangeWhileEnabled("polarity"), <<npwm_file, enable_file>>)
        ELSE Checked(Ok, <<npwm_file, enable_file>>)

\* A set_polarity that also switches the channel off (mutant).
set_polarity_write_and_disable(f, controller, channel, polarity, fault) ==
    LET written == fs_write(f, channel_file(controller, channel, "polarity"),
                            Polarity_to_string(polarity), fault)
    IN  IF written.res # Ok THEN written
        ELSE [written EXCEPT
                 !.files = SetFile(@, channel_file(controller, channel, "enable"), "0")]

set_polarity_write(f, controller, channel, polarity, fault) ==
    fs_write(f, channel_file(controller, channel, "polarity"),
             Polarity_to_string(polarity), fault)

\* A whole call: its checks and, when they pass, its write, on one file system.
Call(f, checks, written) ==
    IF checks.res # Ok
    THEN [res |-> checks.res, value |-> <<>>, files |-> f,
          read |-> checks.read, wrote |-> <<>>]
    ELSE [res |-> written.res, value |-> <<>>, files |-> written.files,
          read |-> checks.read, wrote |-> written.wrote]

export(d, f, controller, fault) ==
    Call(f, export_checks(d, f, controller), export_write(f, controller, fault))

unexport(d, f, controller, fault) ==
    Call(f, unexport_checks(d, f, controller), unexport_write(f, controller, fault))

enable(d, f, controller, channel, fault) ==
    Call(f, update_enable_file_checks(d, f, controller, channel, fault),
         update_enable_file_write(f, controller, channel, "1", fault))

\* A disable that writes "off", a text parse_bool does not know.
disable_writes_off(d, f, controller, channel, fault) ==
    Call(f, update_enable_file_checks(d, f, controller, channel, fault),
         update_enable_file_write(f, controller, channel, "off", fault))

disable(d, f, controller, channel, fault) ==
    Call(f, update_enable_file_checks(d, f, controller, channel, fault),
         update_enable_file_write(f, controller, channel, "0", fault))

set_period(d, f, controller, channel, period, fault) ==
    Call(f, set_period_checks(d, f, controller, channel, period, fault),
         set_period_write(f, controller, channel, period, fault))

set_duty_cycle(d, f, controller, channel, duty_cycle, fault) ==
    Call(f, set_duty_cycle_checks(d, f, controller, channel, duty_cycle, fault),
         set_duty_cycle_write(f, controller, channel, duty_cycle, fault))

set_polarity(d, f, controller, channel, polarity, fault) ==
    Call(f, set_polarity_checks(d, f, controller, channel, fault),
         set_polarity_write(f, controller, channel, polarity, fault))

(***************************************************************************)
(* The read operations (channel_count, is_exported, is_enabled).  The      *)
(* tests call them (Npwm, IsExported, IsEnabled); their code is not part   *)
(* of the sources, so they follow the specification's operation table and  *)
(* its path resolution (controller, then channel index, then activation).  *)
(***************************************************************************)
\* A read-only call's outcome.
Answer(f, res, value, read) ==
    [res |-> res, value |-> value, files |-> f, read |-> read, wrote |-> <<>>]

\* channel_count: the controller directory must exist; read and parse npwm.
channel_count(d, f, controller, fault) ==
    LET dir == chip_dir(controller)
        n_pwm == read_npwm_file(f, dir, fault)
    IN  IF ~exists(d, f, dir) THEN Answer(f, ControllerNotFound(controller), <<>>, <<>>)
        ELSE IF n_pwm.res # Ok THEN Answer(f, n_pwm.res, <<>>, <<join(dir, "npwm")>>)
        ELSE Answer(f, Ok, n_pwm.value, <<join(dir, "npwm")>>)

\* A probe that answers false whenever the directory cannot be resolved.
is_exported_false_on_error(d, f, controller, fault) ==
    LET dir == chip_dir(controller)
        n_pwm == read_npwm_file(f, dir, fault)
    IN  IF ~exists(d, f, dir) \/ n_pwm.res # Ok \/ 0 >= n_pwm.value
        THEN Answer(f, Ok, FALSE, <<>>)
        ELSE Answer(f, Ok, exists(d, f, channel_dir(controller, 0)), <<join(dir, "npwm")>>)

\* is_exported: resolve the directory of the controller's first channel;
\* only "not exported" is answered false, every other failure is returned.
is_exported(d, f, controller, fault) ==
    LET dir == chip_dir(controller)
        n_pwm == read_npwm_file(f, dir, fault)
    IN  IF ~exists(d, f, dir) THEN Answer(f, ControllerNotFound(controller), <<>>, <<>>)
        ELSE IF n_pwm.res # Ok THEN Answer(f, n_pwm.res, <<>>, <<join(dir, "npwm")>>)
        ELSE IF 0 >= n_pwm.value
        THEN Answer(f, ChannelNotFound(controller, 0), <<>>, <<join(dir, "npwm")>>)
        ELSE Answer(f, Ok, exists(d, f, channel_dir(controller, 0)), <<join(dir, "npwm")>>)

\* is_enabled: resolve the channel's enable file, read it and parse the flag.
is_enabled(d, f, controller, channel, fault) ==
    LET enable_file == channel_file(controller, channel, "enable")
        resolved == update_enable_file_checks(d, f, controller, channel, fault)
        flag == read_enabled(f, enable_file, fault)
    IN  IF resolved.res # Ok THEN Answer(f, resolved.res, <<>>, resolved.read)
        ELSE IF flag.res # Ok
        THEN Answer(f, flag.res, <<>>, Append(resolved.read, enable_file))
        ELSE Answer(f, Ok, flag.value, Append(resolved.read, enable_file))

(***************************************************************************)
(* The file systems a run starts from, the layouts the tests build: an     *)
(* empty sysfs root; pwmchip0 with some of its files; or pwmchip0 after    *)
(* its export, holding the directory pwm0 with some of the property files. *)
(* A channel that has both starts with duty_cycle < period.                *)
(***************************************************************************)
\* The controller and the channel the tests create: pwmchip0 and pwm0.
FixtureController == 0
FixtureChannel == 0

ChipLayouts ==
    { {}, {"export", "unexport"}, {"npwm", "export"}, {"npwm", "export", "unexport"} }

ChannelLayouts ==
    { {}, {"enable", "period", "duty_cycle"}, {"enable", "polarity"},
      {"enable", "period", "duty_cycle", "polarity"} }

\* What npwm may hold: a channel count, or (as sysfs prints it) a count
\* followed by a line feed.
NpwmCounts == {"0", "1", "2"}
NpwmTexts == NpwmCounts \cup {"1\n"}

ChipFs(c, chip, npwm, exported) ==
    [p \in {chip_file(c, n) : n \in chip} |->
        IF p = chip_file(c, "npwm") THEN npwm
        ELSE IF p = chip_file(c, "export") THEN exported
        ELSE ""]

ChannelFs(c, k, layout, en, p, dc) ==
    [q \in {channel_file(c, k, n) : n \in layout} |->
        IF q = channel_file(c, k, "enable") THEN en
        ELSE IF q = channel_file(c, k, "period") THEN to_string(p)
        ELSE IF q = channel_file(c, k, "duty_cycle") THEN to_string(dc)
        ELSE "normal"]

\* listen before its first statement: no bus name, no object, on_ready not
\* called.
ListenStart == [pc |-> "start", named |-> FALSE, registered |-> FALSE, on_ready |-> 0]

\* A caller that is in no call.
Idle == [pc |-> "idle"]

NoCall ==
    [op |-> "none", args |-> <<>>, fault |-> "none", res |-> Ok, value |-> <<>>,
     read |-> <<>>, wrote |-> <<>>, same |-> FALSE]

InitEmptyRoot ==
    /\ dirs = {}
    /\ files = <<>>

InitChipOnly ==
    \E chip \in ChipLayouts, npwm \in NpwmTexts :
        /\ dirs = {chip_dir(FixtureController)}
        /\ files = ChipFs(FixtureController, chip, npwm, "")

InitChannel ==
    \E npwm \in NpwmCounts, layout \in ChannelLayouts,
       en \in {"", "1"}, p \in Nanos, dc \in Nanos :
        /\ dc < p
        /\ dirs = {chip_dir(FixtureController),
                   channel_dir(FixtureController, FixtureChannel)}
        /\ files = ChipFs(FixtureController, {"npwm", "export"}, npwm, "1")
                   @@ ChannelFs(FixtureController, FixtureChannel, layout, en, p, dc)

InitFs == InitEmptyRoot \/ InitChipOnly \/ InitChannel

Init ==
    /\ InitFs
    /\ last = NoCall
    /\ panicked = FALSE
    /\ calls = [k \in Callers |-> Idle]
    /\ inbox = <<>>
    /\ quit = FALSE
    /\ listen = ListenStart
    /\ external = FALSE

(***************************************************************************)
(* The control layer called by one caller, one call at a time.             *)
(***************************************************************************)
\* A completed call: op and args name it, out is what it returned, read and
\* wrote; same tells that its write left the file's content as it was.
\* A fault is one the call met: the call ended with Sysfs on a file that
\* exists (an access to a file that exists fails for no other reason).
Returned(op, args, fault, out) ==
    /\ ~panicked
    /\ \E o \in {out} :
        /\ fault # "none" => (o.res.kind = "Sysfs" /\ o.res.path \in DOMAIN files)
        /\ files' = o.files
        /\ last' = [op |-> op, args |-> args, fault |-> fault, res |-> o.res,
                    value |-> o.value, read |-> o.read, wrote |-> o.wrote,
                    same |-> (o.wrote # <<>> /\ o.files = files)]
        /\ panicked' = (o.res = Panic)
    /\ external' = FALSE
    /\ UNCHANGED <<dirs, calls, inbox, quit, listen>>

Export(c, fault) ==
    Returned("export", [controller |-> c], fault, export(dirs, files, c, fault))

Unexport(c, fault) ==
    Returned("unexport", [controller |-> c], fault, unexport(dirs, files, c, fault))

Enable(c, ch, fault) ==
    Returned("enable", [controller |-> c, channel |-> ch], fault,
             enable(dirs, files, c, ch, fault))

Disable(c, ch, fault) ==
    Returned("disable", [controller |-> c, channel |-> ch], fault,
             disable(dirs, files, c, ch, fault))

SetPeriod(c, ch, ns, fault) ==
    Returned("set_period", [controller |-> c, channel |-> ch, nanos |-> ns], fault,
             set_period(dirs, files, c, ch, Duration_from_nanos(ns), fault))

SetDutyCycle(c, ch, ns, fault) ==
    Returned("set_duty_cycle", [controller |-> c, channel |-> ch, nanos |-> ns], fault,
             set_duty_cycle(dirs, files, c, ch, Duration_from_nanos(ns), fault))

SetPolarity(c, ch, pol, fault) ==
    Returned("set_polarity", [controller |-> c, channel |-> ch, polarity |-> pol], fault,
             set_polarity(dirs, files, c, ch, pol, fault))

ChannelCount(c, fault) ==
    Returned("channel_count", [controller |-> c], fault,
             channel_count(dirs, files, c, fault))

IsExported(c, fault) ==
    Returned("is_exported", [controller |-> c], fault,
             is_exported(dirs, files, c, fault))

IsEnabled(c, ch, fault) ==
    Returned("is_enabled", [controller |-> c, channel |-> ch], fault,
             is_enabled(dirs, files, c, ch, fault))

Next ==
    \E c \in Controllers :
        \/ \E fault \in Faults : Export(c, fault)
        \/ \E fault \in Faults : Unexport(c, fault)
        \/ \E ch \in Channels, fault \in Faults : Enable(c, ch, fault)
        \/ \E ch \in Channels, fault \in Faults : Disable(c, ch, fault)
        \/ \E ch \in Channels, ns \in Nanos, fault \in Faults : SetPeriod(c, ch, ns, fault)
        \/ \E ch \in Channels, ns \in Nanos, fault \in Faults : SetDutyCycle(c, ch, ns, fault)
        \/ \E ch \in Channels, pol \in Polarities, fault \in Faults :
               SetPolarity(c, ch, pol, fault)
        \/ \E fault \in Faults : ChannelCount(c, fault)
        \/ \E fault \in Faults : IsExported(c, fault)
        \/ \E ch \in Channels, fault \in Faults : IsEnabled(c, ch, fault)

Spec == Init /\ [][Next]_vars

(***************************************************************************)
(* The control layer step by step.  A call of an operation is two steps:   *)
(* its checks, with every read it makes, and later its write.  Callers     *)
(* that share no lock take these steps in any order (SpecRace); the        *)
(* serving loop of dbus.rs runs one handler at a time (SpecServe).         *)
(***************************************************************************)
\* A request: a method of PwmApi and its arguments.
Request(op, args) == [op |-> op, args |-> args]

\* The texts a client may send as a polarity.
PolarityTexts == {"normal", "inversed", "inverse"}

\* The part of a method's call of the control layer up to the write.
checks_of(d, f, req) ==
    LET a == req.args
    IN  CASE req.op = "export" -> export_checks(d, f, a.controller)
          [] req.op = "unexport" -> unexport_checks(d, f, a.controller)
          [] req.op \in {"enable", "disable"} ->
                update_enable_file_checks(d, f, a.controller, a.channel, "none")
          [] req.op = "set_period" ->
                set_period_checks(d, f, a.controller, a.channel,
                                  Duration_from_nanos(a.nanos), "none")
          [] req.op = "set_duty_cycle" ->
                set_duty_cycle_checks(d, f, a.controller, a.channel,
                                      Duration_from_nanos(a.nanos), "none")
          [] req.op = "set_polarity" ->
                IF Polarity_from_str(a.polarity).res # Ok
                THEN Checked(InvalidPolarity, <<>>)
                ELSE set_polarity_checks(d, f, a.controller, a.channel, "none")
          [] OTHER -> Checked(Ok, <<>>)

\* The write that ends the method's call.
write_of(f, req) ==
    LET a == req.args
    IN  CASE req.op = "export" -> export_write(f, a.controller, "none")
          [] req.op = "unexport" -> unexport_write(f, a.controller, "none")
          [] req.op = "enable" ->
                update_enable_file_write(f, a.controller, a.channel, "1", "none")
          [] req.op = "disable" ->
                update_enable_file_write(f, a.controller, a.channel, "0", "none")
          [] req.op = "set_period" ->
                set_period_write(f, a.controller, a.channel,
                                 Duration_from_nanos(a.nanos), "none")
          [] req.op = "set_duty_cycle" ->
                set_duty_cycle_write(f, a.controller, a.channel,
                                     Duration_from_nanos(a.nanos), "none")
          [] req.op = "set_polarity" ->
                set_polarity_write(f, a.controller, a.channel,
                                   Polarity_from_str(a.polarity).value, "none")
          [] OTHER -> [res |-> Ok, files |-> f, wrote |-> <<>>]

\* What a call's checks saw: the content of each file they read.
Seen(f, read) == [p \in Range(read) |-> f[p]]

\* The call's checks were made on contents that a later write has changed.
Stale(call, f) == \E p \in DOMAIN call.seen : f[p] # call.seen[p]

\* A caller whose call of op has returned res: a direct caller holds the
\* result; a client of the service has had its reply and is free again.
Ended(op, res, direct) ==
    IF direct THEN [pc |-> "done", op |-> op, res |-> res] ELSE Idle

\* Caller k enters req: the checks run on the files as they are now.  A
\* check that fails ends the call; otherwise the write is still to come.
Entered(k, req, direct) ==
    LET checks == checks_of(dirs, files, req)
    IN  /\ calls' = [calls EXCEPT ![k] =
               IF checks.res # Ok THEN Ended(req.op, checks.res, direct)
               ELSE [pc |-> "checked", req |-> req,
                     seen |-> Seen(files, checks.read)]]
        /\ panicked' = (checks.res = Panic)

\* The write that ends caller k's call, on the files as they are by then.
Returns(k, direct) ==
    /\ ~panicked
    /\ calls[k].pc = "checked"
    /\ LET written == write_of(files, calls[k].req)
       IN  /\ files' = written.files
           /\ calls' = [calls EXCEPT ![k] = Ended(calls[k].req.op, written.res, direct)]
    /\ UNCHANGED <<dirs, last, panicked, inbox, quit, listen, external>>

\* The files the step-by-step runs start from: pwmchip0 exported, with one
\* channel pwm0 that has all its files and duty_cycle < period.
InitSteps ==
    /\ \E en \in {"0", "1"}, p \in Nanos, dc \in Nanos :
        /\ dc < p
        /\ dirs = {chip_dir(FixtureController),
                   channel_dir(FixtureController, FixtureChannel)}
        /\ files = ChipFs(FixtureController, {"npwm", "export", "unexport"}, "1", "1")
                   @@ ChannelFs(FixtureController, FixtureChannel,
                                {"enable", "period", "duty_cycle", "polarity"}, en, p, dc)
    /\ last = NoCall
    /\ panicked = FALSE
    /\ calls = [k \in Callers |-> Idle]
    /\ inbox = <<>>
    /\ quit = FALSE
    /\ listen = ListenStart
    /\ external = FALSE

\* The calls that race: set_period and set_duty_cycle on the same channel.
RaceRequests ==
    {Request(op, [controller |-> FixtureController, channel |-> FixtureChannel,
                  nanos |-> ns]) : op \in {"set_period", "set_duty_cycle"}, ns \in Nanos}

\* Caller k calls the control layer itself and gets as far as the write.
Begin(k, req) ==
    /\ ~panicked
    /\ calls[k].pc \in {"idle", "done"}
    /\ Entered(k, req, TRUE)
    /\ UNCHANGED <<dirs, files, last, inbox, quit, listen, external>>

\* Caller k's call writes and returns.
Finish(k) == Returns(k, TRUE)

NextRace ==
    \E k \in Callers :
        \/ \E req \in RaceRequests : Begin(k, req)
        \/ Finish(k)

SpecRace == InitSteps /\ [][NextRace]_vars

\* The requests clients send to the service: every method of PwmApi, on the
\* controller and the channel that exist.
ServeRequests ==
    LET c == [controller |-> FixtureController]
        ch == [controller |-> FixtureController, channel |-> FixtureChannel]
    IN  {Request(op, c) : op \in {"export", "unexport"}}
        \cup {Request(op, ch) : op \in {"enable", "disable"}}
        \cup {Request(op, ch @@ [nanos |-> ns]) :
                 op \in {"set_period", "set_duty_cycle"}, ns \in Nanos}
        \cup {Request("set_polarity", ch @@ [polarity |-> t]) : t \in PolarityTexts}
        \cup {Request("quit", <<>>)}

\* listen's start: zbus::Connection::new_session()?.  A failure returns the
\* error from listen.
Connect(ok) ==
    /\ listen.pc = "start"
    /\ listen' = [listen EXCEPT !.pc = IF ok THEN "connected" ELSE "failed"]
    /\ UNCHANGED <<dirs, files, last, panicked, calls, inbox, quit, external>>

\* DBusProxy::new(&connection)?.request_name(..)?
RequestName(ok) ==
    /\ listen.pc = "connected"
    /\ listen' = [listen EXCEPT !.pc = IF ok THEN "named" ELSE "failed", !.named = ok]
    /\ UNCHANGED <<dirs, files, last, panicked, calls, inbox, quit, external>>

\* object_server.at("/pwm1", pwm_api)?
RegisterObject(ok) ==
    /\ listen.pc = "named"
    /\ listen' = [listen EXCEPT !.pc = IF ok THEN "registered" ELSE "failed",
                                !.registered = ok]
    /\ UNCHANGED <<dirs, files, last, panicked, calls, inbox, quit, external>>

\* An on_ready called as soon as the name is owned (mutant).
OnReady_once_named ==
    /\ listen.pc = "named"
    /\ listen.on_ready = 0
    /\ listen' = [listen EXCEPT !.on_ready = @ + 1]
    /\ UNCHANGED <<dirs, files, last, panicked, calls, inbox, quit, external>>

\* on_ready(); the loop comes next.
OnReady ==
    /\ listen.pc = "registered"
    /\ listen' = [listen EXCEPT !.on_ready = @ + 1, !.pc = "serving"]
    /\ UNCHANGED <<dirs, files, last, panicked, calls, inbox, quit, external>>

\* Client k sends a method call and waits for the reply.  The message lies
\* on the bus until the loop takes it; what it asks for shows then.
Send(k) ==
    /\ listen.named
    /\ listen.pc \notin {"failed", "returned"}
    /\ calls[k].pc = "idle"
    /\ calls' = [calls EXCEPT ![k] = [pc |-> "queued"]]
    /\ inbox' = Append(inbox, k)
    /\ UNCHANGED <<dirs, files, last, panicked, quit, listen, external>>

\* A loop whose turns do not wait for the handler before (mutant).
TryHandleNext_threaded ==
    /\ listen.pc = "serving"
    /\ ~panicked
    /\ ~quit
    /\ inbox # <<>>
    /\ \E req \in ServeRequests :
        /\ Entered(Head(inbox), req, FALSE)
        /\ quit' = (req.op = "quit")
    /\ inbox' = Tail(inbox)
    /\ UNCHANGED <<dirs, files, last, listen, external>>

\* A loop that does not look at the quit flag (mutant).
TryHandleNext_ignoring_quit ==
    /\ listen.pc = "serving"
    /\ ~panicked
    /\ inbox # <<>>
    /\ \A j \in Callers : calls[j].pc # "checked"
    /\ \E req \in ServeRequests :
        /\ Entered(Head(inbox), req, FALSE)
        /\ quit' = (quit \/ req.op = "quit")
    /\ inbox' = Tail(inbox)
    /\ UNCHANGED <<dirs, files, last, listen, external>>

\* One turn of listen's loop: try_handle_next takes the next message and
\* runs its handler.  The loop is one thread and the handler is called
\* inside try_handle_next, so a turn starts only when the handler of the
\* turn before has returned; after quit the loop has ended.
TryHandleNext ==
    /\ listen.pc = "serving"
    /\ ~panicked
    /\ ~quit
    /\ inbox # <<>>
    /\ \A j \in Callers : calls[j].pc # "checked"
    /\ \E req \in ServeRequests :
        /\ Entered(Head(inbox), req, FALSE)
        /\ quit' = (req.op = "quit")
    /\ inbox' = Tail(inbox)
    /\ UNCHANGED <<dirs, files, last, listen, external>>

\* The handler of client k's request writes and returns; the reply frees
\* the client.
HandlerReturns(k) == Returns(k, FALSE)

\* The end of a turn: if *quit.borrow() { break }, and listen returns Ok(()).
Break ==
    /\ listen.pc = "serving"
    /\ ~panicked
    /\ quit
    /\ \A j \in Callers : calls[j].pc # "checked"
    /\ listen' = [listen EXCEPT !.pc = "returned"]
    /\ UNCHANGED <<dirs, files, last, panicked, calls, inbox, quit, external>>

NextServe ==
    \/ \E ok \in BOOLEAN : Connect(ok)
    \/ \E ok \in BOOLEAN : RequestName(ok)
    \/ \E ok \in BOOLEAN : RegisterObject(ok)
    \/ OnReady
    \/ \E k \in Callers : Send(k)
    \/ TryHandleNext
    \/ \E k \in Callers : HandlerReturns(k)
    \/ Break

SpecServe == InitSteps /\ [][NextServe]_vars

\* listen is a running thread: a step of its own that stays possible is
\* taken.  Clients are not obliged to send anything.
SpecServeFair ==
    /\ SpecServe
    /\ WF_vars(OnReady)
    /\ WF_vars(TryHandleNext)
    /\ \A k \in Callers : WF_vars(HandlerReturns(k))
    /\ WF_vars(Break)

(***************************************************************************)
(* The methods of PwmApi (dbus.rs) called one at a time (SpecApi): each    *)
(* converts its arguments, calls the control layer and turns the result    *)
(* into a StatusErrorPair.                                                 *)
(***************************************************************************)
\* The text of the std::io::Error a failed file access carries.
IoErrorText == "Input/output error (os error 5)"

\* PwmError's Display (the #[error] texts), e.to_string().
PwmError_to_string(e) ==
    LET Controller(c) == "Controller(" \o to_string(c) \o ")"
        Channel(ch) == "Channel(" \o to_string(ch) \o ")"
    IN  CASE e.kind = "ControllerNotFound" -> Controller(e.controller) \o " not found"
          [] e.kind = "ChannelNotFound" ->
                Controller(e.controller) \o "/" \o Channel(e.channel) \o " not found"
          [] e.kind = "NotExported" -> Controller(e.controller) \o " not exported"
          [] e.kind = "Sysfs" ->
                "failed to " \o e.access \o "(\"" \o e.path \o "\"): " \o IoErrorText
          [] e.kind = "DutyCycleNotLessThanPeriod" ->
                "duty cycle value must be less than the period value"
          [] e.kind = "InvalidPolarity" -> "legal polarity values: 'normal', 'inversed'"
          [] e.kind = "IllegalChangeWhileEnabled" ->
                e.property \o " cannot be changed while channel is enabled"
          [] e.kind = "NotBoolean" -> "expected boolean value, got \"" \o e.text \o "\""

StatusErrorPair(status, error) == [status |-> status, error |-> error]

\* The match arms of a method: Ok, then the kinds the method names with
\* their status, then Err(e) => (500, e.to_string()).
Matched(res, bad_request, not_found) ==
    IF res = Ok THEN StatusErrorPair(200, "")
    ELSE IF res.kind \in bad_request THEN StatusErrorPair(400, PwmError_to_string(res))
    ELSE IF res.kind \in not_found THEN StatusErrorPair(404, PwmError_to_string(res))
    ELSE StatusErrorPair(500, PwmError_to_string(res))

\* A mapping that answers 404 for whatever is not named (mutant).
status_error_pair_not_found(method, res) ==
    IF res = Ok THEN StatusErrorPair(200, "")
    ELSE StatusErrorPair(404, PwmError_to_string(res))

\* The match of each method on the result of its call of the control layer.
status_error_pair(method, res) ==
    CASE method \in {"export", "unexport"} -> Matched(res, {}, {"ControllerNotFound"})
      [] method \in {"enable", "disable"} ->
            Matched(res, {}, {"ControllerNotFound", "ChannelNotFound"})
      [] method \in {"set_period", "set_duty_cycle"} ->
            Matched(res, {"DutyCycleNotLessThanPeriod"},
                    {"ControllerNotFound", "ChannelNotFound"})
      [] method = "set_polarity" ->
            IF res = IllegalChangeWhileEnabled("polarity")
            THEN StatusErrorPair(400, PwmError_to_string(res))
            ELSE Matched(res, {}, {"ControllerNotFound", "ChannelNotFound"})

\* A method returned: the reply is in last.value.  A panic in the control
\* layer ends the process, there is no reply.
Replied(method, args, fault, out) ==
    Returned(method, args, fault,
             [out EXCEPT !.value = IF out.res = Panic THEN <<>>
                                   ELSE status_error_pair(method, out.res)])

\* PwmApi::set_polarity: the text is parsed first; a text that is no
\* polarity is answered 400 and the control layer is not called.
PwmApi_set_polarity(d, f, controller, channel, polarity, fault) ==
    LET parsed == Polarity_from_str(polarity)
    IN  IF parsed.res # Ok
        THEN [res |-> parsed.res, files |-> f, read |-> <<>>, wrote |-> <<>>,
              value |-> StatusErrorPair(400, PwmError_to_string(parsed.res))]
        ELSE LET out == set_polarity(d, f, controller, channel, parsed.value, fault)
             IN  [out EXCEPT !.value = IF out.res = Panic THEN <<>>
                                       ELSE status_error_pair("set_polarity", out.res)]

ApiExport(c, fault) ==
    Replied("export", [controller |-> c], fault, export(dirs, files, c, fault))

ApiUnexport(c, fault) ==
    Replied("unexport", [controller |-> c], fault, unexport(dirs, files, c, fault))

ApiEnable(c, ch, fault) ==
    Replied("enable", [controller |-> c, channel |-> ch], fault,
            enable(dirs, files, c, ch, fault))

ApiDisable(c, ch, fault) ==
    Replied("disable", [controller |-> c, channel |-> ch], fault,
            disable(dirs, files, c, ch, fault))

ApiSetPeriodNs(c, ch, ns, fault) ==
    Replied("set_period", [controller |-> c, channel |-> ch, nanos |-> ns], fault,
            set_period(dirs, files, c, ch, Duration_from_nanos(ns), fault))

ApiSetDutyCycleNs(c, ch, ns, fault) ==
    Replied("set_duty_cycle", [controller |-> c, channel |-> ch, nanos |-> ns], fault,
            set_duty_cycle(dirs, files, c, ch, Duration_from_nanos(ns), fault))

ApiSetPolarity(c, ch, text, fault) ==
    Returned("set_polarity", [controller |-> c, channel |-> ch, polarity |-> text], fault,
             PwmApi_set_polarity(dirs, files, c, ch, text, fault))

\* A channel whose enable file holds a text that is no boolean.
InitOddEnable ==
    \E p \in Nanos, dc \in Nanos :
        /\ dc < p
        /\ dirs = {chip_dir(FixtureController),
                   channel_dir(FixtureController, FixtureChannel)}
        /\ files = ChipFs(FixtureController, {"npwm", "export"}, "1", "1")
                   @@ ChannelFs(FixtureController, FixtureChannel,
                                {"enable", "period", "duty_cycle", "polarity"}, "on", p, dc)

InitApi ==
    /\ InitFs \/ InitOddEnable
    /\ last = NoCall
    /\ panicked = FALSE
    /\ calls = [k \in Callers |-> Idle]
    /\ inbox = <<>>
    /\ quit = FALSE
    /\ listen = ListenStart
    /\ external = FALSE

NextApi ==
    \E c \in Controllers, fault \in Faults :
        \/ ApiExport(c, fault)
        \/ ApiUnexport(c, fault)
        \/ \E ch \in Channels : ApiEnable(c, ch, fault)
        \/ \E ch \in Channels : ApiDisable(c, ch, fault)
        \/ \E ch \in Channels, ns \in Nanos : ApiSetPeriodNs(c, ch, ns, fault)
        \/ \E ch \in Channels, ns \in Nanos : ApiSetDutyCycleNs(c, ch, ns, fault)
        \/ \E ch \in Channels, text \in PolarityTexts : ApiSetPolarity(c, ch, text, fault)

SpecApi == InitApi /\ [][NextApi]_vars

(***************************************************************************)
(* The control layer beside other writers (SpecExternal): between the      *)
(* calls another process (the kernel, a shell) may write the property      *)
(* files of the channel.                                                   *)
(***************************************************************************)
\* What another process may put into a property file.
ExternalTexts(name) ==
    IF name = "enable" THEN {"", "0", "1"}
    ELSE {to_string(n) : n \in Nanos}

\* Another process writes a property file of the channel.
ExternalWrite(name, text) ==
    LET path == channel_file(FixtureController, FixtureChannel, name)
    IN  /\ ~panicked
        /\ path \in DOMAIN files
        /\ files[path] # text
        /\ files' = SetFile(files, path, text)
        /\ external' = TRUE
        /\ UNCHANGED <<dirs, last, panicked, calls, inbox, quit, listen>>

NextExternal ==
    \/ Export(FixtureController, "none")
    \/ Unexport(FixtureController, "none")
    \/ Enable(FixtureController, FixtureChannel, "none")
    \/ Disable(FixtureController, FixtureChannel, "none")
    \/ \E ns \in Nanos : SetPeriod(FixtureController, FixtureChannel, ns, "none")
    \/ \E ns \in Nanos : SetDutyCycle(FixtureController, FixtureChannel, ns, "none")
    \/ \E pol \in Polarities : SetPolarity(FixtureController, FixtureChannel, pol, "none")
    \/ \E name \in {"period", "duty_cycle", "enable"} :
          \E text \in ExternalTexts(name) : ExternalWrite(name, text)

SpecExternal == InitSteps /\ [][NextExternal]_vars

(***************************************************************************)
(* Properties of the control layer (specification Spec).                   *)
(***************************************************************************)
ChannelOps == {"enable", "disable", "set_period", "set_duty_cycle", "set_polarity"}
MutatingOps == ChannelOps \cup {"export", "unexport"}
ReadOps == {"channel_count", "is_exported", "is_enabled"}

\* The number a file holds, when it exists and holds one.
HoldsNumber(f, path) == path \in DOMAIN f /\ parse_unsigned(f[path]).ok
NumberIn(f, path) == parse_unsigned(f[path]).value

\* Check (a): the controller's directory exists.
ControllerExists(d, f, c) == exists(d, f, chip_dir(c))
\* Check (b): npwm holds a count and the channel id is below it.
ChannelExists(d, f, c, ch) ==
    /\ ControllerExists(d, f, c)
    /\ HoldsNumber(f, chip_file(c, "npwm"))
    /\ ch < NumberIn(f, chip_file(c, "npwm"))
\* Check (c): the property files the call needs exist.
HasFiles(d, f, c, ch, names) ==
    \A n \in names : exists(d, f, channel_file(c, ch, n))

\* The property files an operation needs.
Needs(op) ==
    IF op \in {"enable", "disable", "is_enabled"} THEN {"enable"}
    ELSE IF op \in {"set_period", "set_duty_cycle"} THEN {"period", "duty_cycle"}
    ELSE {"polarity", "enable"}

\* The property files of all channels.
PropertyFiles ==
    {channel_file(c, ch, n) : c \in Controllers, ch \in Channels,
                              n \in {"enable", "period", "duty_cycle", "polarity"}}

\* duty_cycle < period in every channel whose two files hold numbers.
DutyBelowPeriod(f) ==
    \A c \in Controllers, ch \in Channels :
        (/\ HoldsNumber(f, channel_file(c, ch, "period"))
         /\ HoldsNumber(f, channel_file(c, ch, "duty_cycle")))
        => NumberIn(f, channel_file(c, ch, "duty_cycle"))
               < NumberIn(f, channel_file(c, ch, "period"))

\* C1: starting from files with duty_cycle < period, after any sequence of
\* calls made one at a time (any operation, any arguments, succeeding or
\* failing), every channel's files still satisfy duty_cycle < period.
C1_DutyCycleBelowPeriod == DutyBelowPeriod(files)

\* C1's case: set_duty_cycle has written a new value that the period in
\* force, the largest one, just allows.
C1_Witness ==
    /\ last.op = "set_duty_cycle" /\ last.res = Ok /\ ~last.same
    /\ LET pf == channel_file(last.args.controller, last.args.channel, "period")
       IN  /\ NumberIn(files, pf) = last.args.nanos + 1
           /\ NumberIn(files, pf) = MaxNs

\* C2: on an existing, exported channel set_duty_cycle(x) fails with
\* DutyCycleNotLessThanPeriod exactly when x >= the period the period file
\* holds (no file access failing); the failed call leaves every file as it
\* was; with x < period the call succeeds and the duty_cycle file holds x.
C2_SetDutyCycle ==
    [][ \A c \in Controllers, ch \in Channels :
          (/\ last'.op = "set_duty_cycle"
           /\ last'.args.controller = c /\ last'.args.channel = ch
           /\ ChannelExists(dirs, files, c, ch)
           /\ HasFiles(dirs, files, c, ch, {"period", "duty_cycle"})
           /\ HoldsNumber(files, channel_file(c, ch, "period")))
          => LET x == last'.args.nanos
                 period == NumberIn(files, channel_file(c, ch, "period"))
                 failed == last'.res = DutyCycleNotLessThanPeriod
             IN  /\ failed => (x >= period /\ files' = files /\ last'.wrote = <<>>)
                 /\ (last'.fault = "none" /\ x >= period) => failed
                 /\ (last'.fault = "none" /\ x < period)
                        => /\ last'.res = Ok
                           /\ files'[channel_file(c, ch, "duty_cycle")] = to_string(x)
      ]_vars

\* C2's case: a duty cycle equal to the period has been refused.
C2_Witness ==
    /\ last.op = "set_duty_cycle" /\ last.res = DutyCycleNotLessThanPeriod
    /\ LET pf == channel_file(last.args.controller, last.args.channel, "period")
       IN  HoldsNumber(files, pf) /\ NumberIn(files, pf) = last.args.nanos

\* C3: on an existing, exported channel set_period(x) fails with
\* DutyCycleNotLessThanPeriod exactly when x <= the duty cycle the duty_cycle
\* file holds (so for x = 0; no file access failing); the failed call leaves
\* every file as it was; with x > duty cycle the call succeeds and the
\* period file holds x.
C3_SetPeriod ==
    [][ \A c \in Controllers, ch \in Channels :
          (/\ last'.op = "set_period"
           /\ last'.args.controller = c /\ last'.args.channel = ch
           /\ ChannelExists(dirs, files, c, ch)
           /\ HasFiles(dirs, files, c, ch, {"period", "duty_cycle"})
           /\ HoldsNumber(files, channel_file(c, ch, "duty_cycle")))
          => LET x == last'.args.nanos
                 duty_cycle == NumberIn(files, channel_file(c, ch, "duty_cycle"))
                 failed == last'.res = DutyCycleNotLessThanPeriod
             IN  /\ failed => (x <= duty_cycle /\ files' = files /\ last'.wrote = <<>>)
                 /\ (last'.fault = "none" /\ x <= duty_cycle) => failed
                 /\ (last'.fault = "none" /\ x = 0) => failed
                 /\ (last'.fault = "none" /\ x > duty_cycle)
                        => /\ last'.res = Ok
                           /\ files'[channel_file(c, ch, "period")] = to_string(x)
      ]_vars

\* C3's case: a period equal to the duty cycle has been refused.
C3_Witness ==
    /\ last.op = "set_period" /\ last.res = DutyCycleNotLessThanPeriod
    /\ last.args.nanos > 0
    /\ LET df == channel_file(last.args.controller, last.args.channel, "duty_cycle")
       IN  HoldsNumber(files, df) /\ NumberIn(files, df) = last.args.nanos

\* The enable flag a file holds reads true / reads false.
ReadsTrue(f, path) ==
    path \in DOMAIN f /\ parse_bool(f[path]).res = Ok /\ parse_bool(f[path]).value
ReadsFalse(f, path) ==
    path \in DOMAIN f /\ parse_bool(f[path]).res = Ok /\ ~parse_bool(f[path]).value

\* C4: on an existing, exported channel set_polarity fails with
\* IllegalChangeWhileEnabled exactly when the enable file reads true (no file
\* access failing); the failed call writes nothing and leaves every file as
\* it was.  So a polarity file changes only in a step that starts with the
\* enable flag reading false.
C4_SetPolarity ==
    [][ /\ last'.op = "set_polarity"
           => LET c == last'.args.controller
                  ch == last'.args.channel
                  enable_file == channel_file(c, ch, "enable")
                  polarity_file == channel_file(c, ch, "polarity")
                  failed == last'.res = IllegalChangeWhileEnabled("polarity")
              IN  (ChannelExists(dirs, files, c, ch)
                      /\ HasFiles(dirs, files, c, ch, {"polarity", "enable"}))
                  => /\ failed => /\ ReadsTrue(files, enable_file)
                                  /\ files' = files /\ last'.wrote = <<>>
                     /\ (last'.fault = "none" /\ ReadsTrue(files, enable_file)) => failed
                     /\ (last'.fault = "none" /\ ReadsFalse(files, enable_file))
                            => /\ last'.res = Ok
                               /\ files'[polarity_file]
                                      = Polarity_to_string(last'.args.polarity)
        /\ files' # files
           => \A c \in Controllers, ch \in Channels :
                 LET polarity_file == channel_file(c, ch, "polarity")
                 IN  (polarity_file \in DOMAIN files
                         /\ files'[polarity_file] # files[polarity_file])
                     => ReadsFalse(files, channel_file(c, ch, "enable"))
      ]_vars

\* C4's case: the channel is enabled and a change of its polarity to the
\* other value has been refused.
C4_Witness ==
    /\ last.op = "set_polarity" /\ last.res = IllegalChangeWhileEnabled("polarity")
    /\ LET c == last.args.controller
           ch == last.args.channel
       IN  /\ files[channel_file(c, ch, "enable")] = "1"
           /\ files[channel_file(c, ch, "polarity")] # Polarity_to_string(last.args.polarity)

\* C5: for a controller id with no directory under the sysfs root every
\* operation, the read operations included, fails with ControllerNotFound
\* carrying that id and reads and writes no file.
C5_UnknownController ==
    (last.op \in MutatingOps \cup ReadOps
        /\ ~ControllerExists(dirs, files, last.args.controller))
    => /\ last.res = ControllerNotFound(last.args.controller)
       /\ last.wrote = <<>>
       /\ last.read = <<>>

\* C5's case: a call named a controller that does not exist, beside one that
\* does, and was refused.
C5_Witness ==
    /\ last.op = "set_duty_cycle"
    /\ last.args.controller # FixtureController
    /\ ControllerExists(dirs, files, FixtureController)
    /\ ~ControllerExists(dirs, files, last.args.controller)
    /\ last.res = ControllerNotFound(last.args.controller)

\* The call read or wrote a property file of some channel.
TouchedProperty(call) ==
    (Range(call.read) \cup Range(call.wrote)) \cap PropertyFiles # {}

\* C6: for an existing controller and a channel id >= the count read from
\* npwm, every channel operation fails with ChannelNotFound (not
\* NotExported), whether or not that channel's directory exists, and reads
\* and writes no property file.
C6_ChannelBeyondCount ==
    LET c == last.args.controller
        ch == last.args.channel
    IN  (/\ last.op \in ChannelOps
         /\ ControllerExists(dirs, files, c)
         /\ HoldsNumber(files, chip_file(c, "npwm"))
         /\ ch >= NumberIn(files, chip_file(c, "npwm"))
         /\ last.fault = "none")
        => /\ last.res = ChannelNotFound(c, ch)
           /\ last.wrote = <<>>
           /\ ~TouchedProperty(last)

\* C6's case: the channel's directory and files exist, its id is not below
\* the count, and the call was refused with ChannelNotFound.
C6_Witness ==
    /\ last.op = "set_period"
    /\ last.res = ChannelNotFound(last.args.controller, last.args.channel)
    /\ channel_dir(last.args.controller, last.args.channel) \in dirs
    /\ HasFiles(dirs, files, last.args.controller, last.args.channel,
                {"period", "duty_cycle"})

\* C7: a channel operation checks (a) the controller exists, (b) the channel
\* id is below the count, (c) the files it needs exist, in this order, and
\* returns the error of the first check that fails: ControllerNotFound,
\* ChannelNotFound, NotExported.  It reads or writes a property file only
\* when all three hold.
C7_CheckOrder ==
    LET c == last.args.controller
        ch == last.args.channel
        a == ControllerExists(dirs, files, c)
        counted == HoldsNumber(files, chip_file(c, "npwm")) /\ last.fault # "npwm"
        b == ChannelExists(dirs, files, c, ch)
        cc == HasFiles(dirs, files, c, ch, Needs(last.op))
    IN  last.op \in ChannelOps
        => /\ ~a <=> last.res = ControllerNotFound(c)
           /\ (a /\ counted /\ ~b) <=> last.res = ChannelNotFound(c, ch)
           /\ (a /\ counted /\ b /\ ~cc) <=> last.res = NotExported(c)
           /\ TouchedProperty(last) => (a /\ b /\ cc)

\* C7's case: a channel id below the count whose directory does not exist:
\* the call ends with NotExported.
C7_Witness ==
    /\ last.op = "set_polarity"
    /\ last.res = NotExported(last.args.controller)
    /\ ChannelExists(dirs, files, last.args.controller, last.args.channel)
    /\ channel_dir(last.args.controller, last.args.channel) \notin dirs

(***************************************************************************)
(* Properties of the step-by-step runs (SpecRace, SpecServe).              *)
(***************************************************************************)
\* The call's own check of duty_cycle < period, on the value its checks read.
PassedOwnCheck(call) ==
    LET a == call.req.args
        period_file == channel_file(a.controller, a.channel, "period")
        duty_cycle_file == channel_file(a.controller, a.channel, "duty_cycle")
    IN  /\ call.req.op = "set_period"
           => parse_unsigned(call.seen[duty_cycle_file]).value < a.nanos
        /\ call.req.op = "set_duty_cycle"
           => a.nanos < parse_unsigned(call.seen[period_file]).value

\* The calls whose write is still to come.
InFlight == {k \in Callers : calls[k].pc = "checked"}

\* C8: with set_period and set_duty_cycle called without serialization,
\* every call that writes has passed its own duty_cycle < period check on
\* the value it read and succeeds; a write breaks duty_cycle < period only
\* when the check behind it is stale, the value it read having been
\* overwritten by another caller in between.  (That such a run exists is
\* C8_Witness.)
C8_RaceOnlyWhenStale ==
    [][ \A k \in Callers :
          (calls[k].pc = "checked" /\ calls'[k].pc = "done")
          => /\ PassedOwnCheck(calls[k])
             /\ calls'[k].res = Ok
             /\ (DutyBelowPeriod(files) /\ ~DutyBelowPeriod(files'))
                => Stale(calls[k], files)
      ]_vars

\* C8's case: a set_period and a set_duty_cycle on the same channel have both
\* returned Ok, the second of them just now (nobody is in a call), and the
\* channel's files hold duty_cycle >= period.
C8_Witness ==
    \E j \in Callers, k \in Callers :
        /\ calls[j].pc = "done" /\ calls[j].res = Ok /\ calls[j].op = "set_period"
        /\ calls[k].pc = "done" /\ calls[k].res = Ok /\ calls[k].op = "set_duty_cycle"
        /\ InFlight = {}
        /\ LET period_file == channel_file(FixtureController, FixtureChannel, "period")
               duty_cycle_file == channel_file(FixtureController, FixtureChannel, "duty_cycle")
           IN  /\ NumberIn(files, duty_cycle_file) >= NumberIn(files, period_file)
               /\ NumberIn(files, period_file) > 0

\* C9: under the serving loop at most one request's operation is between
\* its checks and its write, whatever the number of clients with requests
\* on the bus; the files it read are unchanged when it writes; so every
\* channel keeps duty_cycle < period.
C9_OneRequestAtATime ==
    /\ Cardinality(InFlight) <= 1
    /\ \A k \in InFlight : ~Stale(calls[k], files)
    /\ DutyBelowPeriod(files)

\* C9's case: the handler of a set_period is between its checks and its
\* write while another client's message waits on the bus, and there is a
\* set_duty_cycle that would pass its checks on the files as they are now
\* and break duty_cycle < period once the handler has written.
C9_Witness ==
    \E j \in Callers, k \in Callers :
        /\ calls[j].pc = "checked" /\ calls[j].req.op = "set_period"
        /\ calls[k].pc = "queued" /\ inbox # <<>> /\ Head(inbox) = k
        /\ \E req \in ServeRequests :
            /\ req.op = "set_duty_cycle"
            /\ checks_of(dirs, files, req).res = Ok
            /\ req.args.nanos >= calls[j].req.args.nanos

\* A second call of an operation that succeeded succeeds too, repeats the
\* write and leaves the files as the first call left them, text at path.
Repeats(first, second, path, text) ==
    first.res = Ok
    => /\ second.res = Ok
       /\ first.wrote = <<path>> /\ second.wrote = <<path>>
       /\ first.files[path] = text
       /\ second.files = first.files

\* C10: enable, disable, export and unexport are idempotent: called when the
\* target state already holds they succeed, write the same text again
\* (enable "1", disable "0", export and unexport "1") and leave the file
\* system as one call leaves it.
C10_Idempotent ==
    /\ \A c \in Controllers :
        /\ Repeats(export(dirs, files, c, "none"),
                   export(dirs, export(dirs, files, c, "none").files, c, "none"),
                   chip_file(c, "export"), "1")
        /\ Repeats(unexport(dirs, files, c, "none"),
                   unexport(dirs, unexport(dirs, files, c, "none").files, c, "none"),
                   chip_file(c, "unexport"), "1")
        /\ \A ch \in Channels :
            /\ Repeats(enable(dirs, files, c, ch, "none"),
                       enable(dirs, enable(dirs, files, c, ch, "none").files, c, ch, "none"),
                       channel_file(c, ch, "enable"), "1")
            /\ Repeats(disable(dirs, files, c, ch, "none"),
                       disable(dirs, disable(dirs, files, c, ch, "none").files, c, ch, "none"),
                       channel_file(c, ch, "enable"), "0")
    /\ (last.op \in {"enable", "disable", "export", "unexport"} /\ last.same)
       => last.res = Ok

\* C10's case: enable has been called on a channel that was enabled already
\* and has written "1" over "1".
C10_Witness ==
    /\ last.op = "enable" /\ last.res = Ok /\ last.same
    /\ files[channel_file(last.args.controller, last.args.channel, "enable")] = "1"

\* The controller's directory holds export and unexport but no npwm.
NoNpwm(d, f, c) ==
    /\ chip_dir(c) \in d
    /\ exists(d, f, chip_file(c, "export"))
    /\ exists(d, f, chip_file(c, "unexport"))
    /\ ~exists(d, f, chip_file(c, "npwm"))

\* C11: for a controller directory with the export and unexport files but
\* no npwm file, export succeeds and writes "1" to the export file (no file
\* access failing), while channel_count fails with a sysfs read error on
\* npwm and writes nothing.
C11_ExportWithoutNpwm ==
    (last.op \in {"export", "channel_count"}
        /\ NoNpwm(dirs, files, last.args.controller))
    => LET c == last.args.controller
       IN  /\ (last.op = "export" /\ last.fault = "none")
              => /\ last.res = Ok
                 /\ last.wrote = <<chip_file(c, "export")>>
                 /\ files[chip_file(c, "export")] = "1"
           /\ last.op = "channel_count"
              => /\ last.res = SysfsRead(chip_file(c, "npwm"))
                 /\ last.wrote = <<>>

\* C11's case: in such a directory export has succeeded (the export file
\* holds "1") and channel_count has then failed.
C11_Witness ==
    /\ last.op = "channel_count"
    /\ NoNpwm(dirs, files, last.args.controller)
    /\ last.res.kind = "Sysfs"
    /\ files[chip_file(last.args.controller, "export")] = "1"

\* The kinds of a typed result: Ok and the variants of PwmError.
TypedKinds ==
    {"Ok", "ControllerNotFound", "ChannelNotFound", "NotExported", "Sysfs",
     "DutyCycleNotLessThanPeriod", "InvalidPolarity", "IllegalChangeWhileEnabled",
     "NotBoolean"}

\* C12: no error is fatal to the process: whatever the files hold (text in
\* npwm, period or duty_cycle that is no number or ends with white space
\* included) every call returns a typed result and no call aborts the
\* process, so calls keep being served.
C12_NoOperationAborts ==
    /\ ~panicked
    /\ last.res.kind \in TypedKinds

(***************************************************************************)
(* The value conversions on their own (SpecCodec): parse_bool and the text *)
(* conversions of Polarity applied to texts in every mix of upper and      *)
(* lower case, with and without white space around them.                   *)
(***************************************************************************)
UpperChar(c) ==
    IF \E i \in 1..26 : CharAt(LowerChars, i) = c
    THEN CharAt(UpperChars, CHOOSE i \in 1..26 : CharAt(LowerChars, i) = c)
    ELSE c

\* s with each letter in upper or in lower case.
RECURSIVE CaseVariants(_)
CaseVariants(s) ==
    IF s = "" THEN {""}
    ELSE {c \o rest : c \in {LowerChar(CharAt(s, 1)), UpperChar(CharAt(s, 1))},
                      rest \in CaseVariants(Tail(s))}

WhiteSpace == {" ", "\n", "\t"}

\* The runs of at most n white space characters.
RECURSIVE Pads(_)
Pads(n) ==
    IF n = 0 THEN {""}
    ELSE Pads(n - 1) \cup {p \o w : p \in Pads(n - 1), w \in WhiteSpace}

\* s without the white space at its end.
RECURSIVE TrimEnd(_)
TrimEnd(s) ==
    IF s # "" /\ CharAt(s, Len(s)) \in WhiteSpace
    THEN TrimEnd(SubSeq(s, 1, Len(s) - 1))
    ELSE s

Truthy == {"1", "y", "yes", "true"}
Falsy == {"0", "n", "no", "false", ""}

\* The texts given to parse_bool: the spellings and a few other words, in
\* every case, followed by white space or not.
BoolTexts ==
    {w \o p : w \in UNION {CaseVariants(x) : x \in Truthy \cup Falsy \cup {"2", "on", "ye", "t"}},
              p \in Pads(MaxPad)}

\* The texts given to Polarity's parser: the two names and two other words,
\* in every case, with white space around them or not.
PolarityInputs ==
    {a \o w \o b : w \in UNION {CaseVariants(x) : x \in {"normal", "inversed", "norm", ""}},
                   a \in Pads(MaxPad), b \in Pads(MaxPad)}

\* An input handed to a conversion that has not been applied yet.
Given(args) == [NoCall EXCEPT !.args = args]

InitCodec ==
    /\ dirs = {}
    /\ files = <<>>
    /\ last \in {Given([text |-> s]) : s \in BoolTexts \cup PolarityInputs}
                \cup {Given([polarity |-> p]) : p \in Polarities}
    /\ panicked = FALSE
    /\ calls = [k \in Callers |-> Idle]
    /\ inbox = <<>>
    /\ quit = FALSE
    /\ listen = ListenStart
    /\ external = FALSE

\* A conversion applied: what went in, and its result.
Converted(op, args, out) ==
    /\ last' = [op |-> op, args |-> args, fault |-> "none", res |-> out.res,
                value |-> out.value, read |-> <<>>, wrote |-> <<>>, same |-> FALSE]
    /\ UNCHANGED <<dirs, files, panicked, calls, inbox, quit, listen, external>>

\* The input waiting for a conversion, if it is one of that conversion's.
Pending(field, inputs) ==
    /\ last.op = "none"
    /\ field \in DOMAIN last.args
    /\ last.args[field] \in inputs

ParseBool ==
    /\ Pending("text", BoolTexts)
    /\ Converted("parse_bool", last.args, parse_bool(last.args.text))

ParsePolarity ==
    /\ Pending("text", PolarityInputs)
    /\ Converted("Polarity_from_str", last.args, Polarity_from_str(last.args.text))

FormatPolarity ==
    /\ Pending("polarity", Polarities)
    /\ Converted("Polarity_to_string", last.args,
                 [res |-> Ok, value |-> Polarity_to_string(last.args.polarity)])

\* The text a Polarity was formatted to, parsed again.
ParseFormatted ==
    /\ last.op = "Polarity_to_string"
    /\ Converted("Polarity_from_str", [text |-> last.value, polarity |-> last.args.polarity],
                 Polarity_from_str(last.value))

NextCodec ==
    \/ ParseBool
    \/ ParsePolarity
    \/ FormatPolarity
    \/ ParseFormatted

SpecCodec == InitCodec /\ [][NextCodec]_vars

\* C13: parse_bool gives true for 1, y, yes, true and false for 0, n, no,
\* false and the empty text, in any case and with any white space after
\* them; for every other text it fails with NotBoolean carrying the text as
\* given.
C13_ParseBool ==
    last.op = "parse_bool"
    => LET s == last.args.text
           spelling == to_lowercase(TrimEnd(s))
       IN  /\ spelling \in Truthy => (last.res = Ok /\ last.value = TRUE)
           /\ spelling \in Falsy => (last.res = Ok /\ last.value = FALSE)
           /\ spelling \notin Truthy \cup Falsy => last.res = NotBoolean(s)

\* C14: formatting a Polarity gives exactly "normal" or "inversed"; parsing
\* that text gives the Polarity back; parsing any other text, the names in
\* another case or with white space around them included, fails with
\* InvalidPolarity.
C14_PolarityRoundTrip ==
    /\ last.op = "Polarity_to_string"
       => /\ last.res = Ok
          /\ last.value = (IF last.args.polarity = "Normal" THEN "normal" ELSE "inversed")
    /\ last.op = "Polarity_from_str"
       => /\ "polarity" \in DOMAIN last.args
             => (last.res = Ok /\ last.value = last.args.polarity)
          /\ last.args.text \notin {"normal", "inversed"} => last.res = InvalidPolarity
          /\ last.args.text = "normal" => (last.res = Ok /\ last.value = "Normal")
          /\ last.args.text = "inversed" => (last.res = Ok /\ last.value = "Inversed")

\* Inversed was formatted to "inversed" and that text parsed to Inversed.
C14_Witness ==
    /\ last.op = "Polarity_from_str"
    /\ "polarity" \in DOMAIN last.args
    /\ last.args.polarity = "Inversed"
    /\ last.args.text = "inversed"
    /\ last.res = Ok /\ last.value = "Inversed"

C16_IsEnabled ==
    [][ last'.op = "is_enabled"
        => LET c == last'.args.controller
               ch == last'.args.channel
               enable_file == channel_file(c, ch, "enable")
               resolved == /\ last'.fault = "none"
                           /\ ChannelExists(dirs, files, c, ch)
                           /\ exists(dirs, files, enable_file)
               after(op) == /\ last.op = op /\ last.res = Ok
                            /\ last.args.controller = c /\ last.args.channel = ch
           IN  /\ last'.wrote = <<>> /\ files' = files
               /\ (resolved /\ files[enable_file] = "")
                  => (last'.res = Ok /\ last'.value = FALSE)
               /\ after("enable")
                  => /\ files[enable_file] = "1"
                     /\ last'.fault = "none" => (last'.res = Ok /\ last'.value = TRUE)
               /\ after("disable")
                  => /\ files[enable_file] = "0"
                     /\ last'.fault = "none" => (last'.res = Ok /\ last'.value = FALSE)
      ]_vars

\* is_enabled answered false on the channel a disable had just turned off.
C16_Witness ==
    /\ last.op = "is_enabled" /\ last.res = Ok /\ last.value = FALSE
    /\ files[channel_file(last.args.controller, last.args.channel, "enable")] = "0"

C18_QuitEndsTheLoop ==
    /\ [][quit => quit']_vars
    /\ [](listen.pc = "returned" => quit)
    /\ [][(listen.pc = "serving" /\ listen'.pc # "serving") => (quit /\ listen'.pc = "returned")]_vars
    /\ [][quit => (Len(inbox') >= Len(inbox) /\ files' = files)]_vars
    /\ (quit ~> listen.pc = "returned")
    /\ \A k \in Callers :
          (listen.pc = "serving" /\ calls[k].pc = "queued") ~> (calls[k].pc # "queued" \/ quit)

\* listen has returned after a Quit, and a request sent meanwhile is still
\* on the bus.
C18_Witness ==
    /\ listen.pc = "returned"
    /\ quit
    /\ inbox # <<>>

\* C19: on_ready is called at most once, and only with the bus name owned
\* and the object registered; a listen that serves has called it; no request
\* is taken from the bus before it was called; and a listen whose
\* connecting, name request or object registration failed has not called it,
\* does nothing more and handles no request.
C19_OnReadyOnce ==
    /\ [](listen.on_ready <= 1)
    /\ [](listen.on_ready = 1 => (listen.named /\ listen.registered))
    /\ [](listen.pc \in {"serving", "returned"} => listen.on_ready = 1)
    /\ [][listen'.on_ready # listen.on_ready
          => (listen.on_ready = 0 /\ listen.pc = "registered" /\ listen'.pc = "serving")]_vars
    /\ [][(Len(inbox') < Len(inbox) \/ files' # files) => listen.on_ready = 1]_vars
    /\ [](listen.pc = "failed" => listen.on_ready = 0)
    /\ [][listen.pc = "failed"
          => (listen' = listen /\ inbox' = inbox /\ files' = files /\ calls' = calls)]_vars

\* on_ready has been called and the first request is in its handler.
C19_Witness ==
    /\ listen.on_ready = 1
    /\ listen.pc = "serving"
    /\ \E k \in Callers : calls[k].pc = "checked"

\* The object's registration failed with a request already on the bus.
C19_FailedStart ==
    /\ listen.pc = "failed"
    /\ listen.named
    /\ inbox # <<>>

\* The one file an operation writes, and the text it writes there.
WrittenFile(call) ==
    LET a == call.args
    IN  CASE call.op \in {"export", "unexport"} -> chip_file(a.controller, call.op)
          [] call.op \in {"enable", "disable"} -> channel_file(a.controller, a.channel, "enable")
          [] call.op = "set_period" -> channel_file(a.controller, a.channel, "period")
          [] call.op = "set_duty_cycle" -> channel_file(a.controller, a.channel, "duty_cycle")
          [] call.op = "set_polarity" -> channel_file(a.controller, a.channel, "polarity")

WrittenText(call) ==
    CASE call.op \in {"export", "unexport", "enable"} -> "1"
      [] call.op = "disable" -> "0"
      [] call.op \in {"set_period", "set_duty_cycle"} -> to_string(call.args.nanos)
      [] call.op = "set_polarity" ->
            IF call.args.polarity = "Normal" THEN "normal" ELSE "inversed"

\* C20: an operation changes no file but its own (period for set_period,
\* duty_cycle for set_duty_cycle, polarity for set_polarity, enable for
\* enable and disable, export for export, unexport for unexport) and creates
\* or removes none; when it succeeds that file holds the text of the value
\* given (the nanoseconds in decimal) and all else is as before; when it
\* fails with anything but a sysfs write error every file is as before.
C20_OneFilePerOperation ==
    [][ last'.op \in MutatingOps
        => LET target == WrittenFile(last')
               write_failed == last'.res.kind = "Sysfs" /\ last'.res.access = "Write"
           IN  /\ dirs' = dirs
               /\ DOMAIN files' = DOMAIN files
               /\ \A p \in DOMAIN files : p # target => files'[p] = files[p]
               /\ last'.res = Ok
                  => /\ target \in DOMAIN files
                     /\ files' = SetFile(files, target, WrittenText(last'))
               /\ (last'.res # Ok /\ ~write_failed) => files' = files
      ]_vars

\* A set_period has put a new number into the period file.
C20_Witness ==
    /\ last.op = "set_period"
    /\ last.res = Ok
    /\ ~last.same
    /\ files[channel_file(last.args.controller, last.args.channel, "period")]
          = to_string(last.args.nanos)

\* C21: whatever calls and writes of other processes came before, a call's
\* result and the file it writes follow from the files as they are when it
\* is made and from its arguments: set_duty_cycle(x) is refused exactly when
\* x >= the number now in the period file, set_period(x) exactly when x <=
\* the number now in the duty_cycle file, set_polarity exactly when the
\* enable file now reads true, the other operations are not refused; a call
\* that is not refused writes its text to its file and a refused one leaves
\* every file as it was.
C21_NoStateBetweenCalls ==
    [][ (~external' /\ last'.op \in MutatingOps)
        => LET c == last'.args.controller
               period == NumberIn(files, channel_file(c, FixtureChannel, "period"))
               duty_cycle == NumberIn(files, channel_file(c, FixtureChannel, "duty_cycle"))
               enabled == ReadsTrue(files, channel_file(c, FixtureChannel, "enable"))
               expected ==
                   CASE last'.op = "set_duty_cycle" ->
                           IF last'.args.nanos >= period
                           THEN DutyCycleNotLessThanPeriod ELSE Ok
                     [] last'.op = "set_period" ->
                           IF last'.args.nanos <= duty_cycle
                           THEN DutyCycleNotLessThanPeriod ELSE Ok
                     [] last'.op = "set_polarity" ->
                           IF enabled THEN IllegalChangeWhileEnabled("polarity") ELSE Ok
                     [] OTHER -> Ok
           IN  /\ last'.res = expected
               /\ expected = Ok
                  => /\ last'.wrote = <<WrittenFile(last')>>
                     /\ files' = SetFile(files, WrittenFile(last'), WrittenText(last'))
               /\ expected # Ok => (last'.wrote = <<>> /\ files' = files)
      ]_vars

\* set_duty_cycle(0) was refused against a period of 0, a value no call of
\* the layer can write: another process put it there.
C21_Witness ==
    /\ last.op = "set_duty_cycle"
    /\ last.args.nanos = 0
    /\ last.res = DutyCycleNotLessThanPeriod
    /\ files[channel_file(FixtureController, FixtureChannel, "period")] = "0"
    /\ ~external
=============================================================================
